---------------------------- MODULE Spec2Model ----------------------------
(***************************************************************************)
(* The DoJSON rules for the MARC 5xx fields of INSPIRE                     *)
(* (inspire_dojson/hep/rules/bd5xx.py), as a state machine.                *)
(*                                                                         *)
(* A conversion is a sequence of rule invocations made by the dispatcher:  *)
(* a forward rule (hep) receives the in-progress semantic record `self`    *)
(* and the value of one MARC tag, a backward rule (hep2marc) receives the  *)
(* in-progress MARC record and the value of one semantic key.  The value   *)
(* the rule returns is stored under the key the rule is registered for.    *)
(*                                                                         *)
(* Python values are tagged records, so that the type tests of the code    *)
(* (force_list, truthiness, dict.get on a non-dict) are computed:          *)
(*   None, Str(s), PyInt(n), Tup(<<...>>), PyList(<<...>>), Dict(f).       *)
(* Semantic objects the code builds itself (a note, thesis_info, a list of *)
(* notes) are plain functions and sequences holding tagged leaves.         *)
(***************************************************************************)
EXTENDS Integers, Sequences, FiniteSets, TLC

VARIABLES rec, marc, hist, raised

vars == <<rec, marc, hist, raised>>

-----------------------------------------------------------------------------
(* Bounds of the model.                                                    *)

\* rule invocations of one forward conversion of the 500/502 tags
MaxCalls == 2
\* occurrences of one tag handed to a rule in one invocation
MaxOccs == 2
\* forward invocations of one conversion of the 536/540/542 tags
MaxFields == 1
\* forward invocations of one conversion of the 595 tags
MaxCalls595 == 1

-----------------------------------------------------------------------------
(* Python values.                                                          *)

None == [t |-> "none"]
Str(s) == [t |-> "str", v |-> s]
PyInt(n) == [t |-> "int", v |-> n]
Tup(s) == [t |-> "tuple", v |-> s]
PyList(s) == [t |-> "list", v |-> s]
Dict(f) == [t |-> "dict", v |-> f]

\* the empty dict {}
EmptyDict == <<>>

\* Python truthiness: `if x`, `x or y`
Truthy(x) ==
    CASE x.t = "none" -> FALSE
      [] x.t = "str" -> x.v # ""
      [] x.t = "int" -> x.v # 0
      [] x.t \in {"tuple", "list"} -> Len(x.v) > 0
      [] x.t = "bool" -> x.v
      [] OTHER -> TRUE

\* d.get(k, default) on the mapping d
Get(d, k, default) == IF k \in DOMAIN d THEN d[k] ELSE default

\* d[k] = v
SetItem(d, k, v) == [x \in (DOMAIN d) \cup {k} |-> IF x = k THEN v ELSE d[x]]

\* k in d
HasKey(d, k) == k \in DOMAIN d

\* str.upper(), on the ASCII letters
LowerCase == "abcdefghijklmnopqrstuvwxyz"
UpperCase == "ABCDEFGHIJKLMNOPQRSTUVWXYZ"

UpperChar(c) ==
    IF \E i \in 1..26 : SubSeq(LowerCase, i, i) = c
    THEN LET i == CHOOSE j \in 1..26 : SubSeq(LowerCase, j, j) = c
         IN  SubSeq(UpperCase, i, i)
    ELSE c

RECURSIVE upper(_)
upper(s) ==
    IF s = "" THEN ""
    ELSE UpperChar(SubSeq(s, 1, 1)) \o upper(SubSeq(s, 2, Len(s)))

Digits == "0123456789"

IsDigit(c) == \E i \in 1..10 : SubSeq(Digits, i, i) = c

DigitValue(c) == (CHOOSE i \in 1..10 : SubSeq(Digits, i, i) = c) - 1

\* whether s[from..to] exists and is all digits
DigitsAt(s, from, to) ==
    /\ to <= Len(s)
    /\ \A i \in from..to : IsDigit(SubSeq(s, i, i))

-----------------------------------------------------------------------------
(* The helper collaborators (inspire_dojson.utils).                        *)

\* force_list: None -> [], a tuple or list -> its elements, else [data]
force_list(data) ==
    CASE data.t = "none" -> <<>>
      [] data.t \in {"tuple", "list"} -> data.v
      [] OTHER -> <<data>>

\* force_single_element: the first element of force_list(obj), or None
force_single_element(obj) ==
    LET lst == force_list(obj)
    IN  IF Len(lst) > 0 THEN lst[1] ELSE None

\* get_record_ref: a typed reference for a key, None for no key
get_record_ref(recid, endpoint) ==
    IF recid.t = "none" THEN None
    ELSE [t |-> "ref", endpoint |-> endpoint, recid |-> recid]

RECURSIVE ParseInt(_, _)
ParseInt(s, acc) ==
    IF s = "" THEN acc
    ELSE ParseInt(SubSeq(s, 2, Len(s)), 10 * acc + DigitValue(SubSeq(s, 1, 1)))

\* maybe_int: the integer a value denotes, None when it denotes none
maybe_int(x) ==
    CASE x.t = "int" -> x
      [] x.t = "str" /\ x.v # "" /\ DigitsAt(x.v, 1, Len(x.v)) -> PyInt(ParseInt(x.v, 0))
      [] OTHER -> None

\* dojson.utils.for_each_value: the values the decorated rule is applied to,
\* one result each
for_each_value(values) ==
    IF values.t \in {"tuple", "list"} THEN values.v ELSE <<values>>

-----------------------------------------------------------------------------
(* What a rule invocation yields: the record `self` as the rule left it,   *)
(* the value it returned, or the exception it raised.                      *)

Returned(self, ret) == [self |-> self, ret |-> ret, exc |-> "none"]
Raised(self, exc) == [self |-> self, ret |-> None, exc |-> exc]

-----------------------------------------------------------------------------
(* 500: public_notes                                                       *)

DefensePrefix == "PRESENTED ON "

\* IS_DEFENSE_DATE.match(s): the text must begin, in any letter case, with
\* "Presented on " and four digits; the group then takes up to two "-dd".
IsDashTwoDigits(s, from) ==
    /\ from + 2 <= Len(s)
    /\ SubSeq(s, from, from) = "-"
    /\ DigitsAt(s, from + 1, from + 2)

IS_DEFENSE_DATE_match(s) ==
    /\ Len(s) >= 17
    /\ upper(SubSeq(s, 1, 13)) = DefensePrefix
    /\ DigitsAt(s, 14, 17)

\* match.group('defense_date')
IS_DEFENSE_DATE_group(s) ==
    LET n == IF IsDashTwoDigits(s, 18)
             THEN (IF IsDashTwoDigits(s, 21) THEN 2 ELSE 1)
             ELSE 0
    IN  SubSeq(s, 14, 17 + 3 * n)

\* the inner loop, over the 'a' values of one occurrence
RECURSIVE public_notes_inner(_, _, _)
public_notes_inner(texts, source, acc) ==
    IF texts = <<>> THEN acc
    ELSE LET public_note == Head(texts)
             next == IF IS_DEFENSE_DATE_match(public_note.v)
                     THEN [acc EXCEPT !.thesis_info =
                              SetItem(@, "defense_date",
                                      Str(IS_DEFENSE_DATE_group(public_note.v)))]
                     ELSE [acc EXCEPT !.public_notes =
                              Append(@, [source |-> source, value |-> public_note])]
         IN  public_notes_inner(Tail(texts), source, next)

\* the outer loop, over the occurrences
RECURSIVE public_notes_outer(_, _, _)
public_notes_outer(values, source, acc) ==
    IF values = <<>> THEN acc
    ELSE public_notes_outer(
             Tail(values), source,
             public_notes_inner(force_list(Get(Head(values).v, "a", None)), source, acc))

public_notes(self, value) ==
    IF value.t # "dict"
    THEN \* value.get('9', '') on a tuple of occurrences
         Raised(self, "AttributeError")
    ELSE LET source == force_single_element(Get(value.v, "9", Str("")))
             acc == public_notes_outer(
                        force_list(value), source,
                        [public_notes |-> Get(self, "public_notes", <<>>),
                         thesis_info |-> Get(self, "thesis_info", EmptyDict)])
             \* the list of an existing key is appended to in place
             self1 == IF HasKey(self, "public_notes")
                      THEN SetItem(self, "public_notes", acc.public_notes)
                      ELSE self
         IN  Returned(SetItem(self1, "thesis_info", acc.thesis_info), acc.public_notes)

-----------------------------------------------------------------------------
(* 502: thesis_info                                                        *)

DEGREE_TYPES_MAP ==
    [k \in {"RAPPORT DE STAGE", "INTERNSHIP REPORT", "DIPLOMA", "BACHELOR", "LAUREA",
            "MASTER", "THESIS", "PHD", "PDF", "PH.D. THESIS", "HABILITATION"} |->
        CASE k \in {"RAPPORT DE STAGE", "INTERNSHIP REPORT", "THESIS"} -> "other"
          [] k = "DIPLOMA" -> "diploma"
          [] k = "BACHELOR" -> "bachelor"
          [] k = "LAUREA" -> "laurea"
          [] k = "MASTER" -> "master"
          [] k \in {"PHD", "PDF", "PH.D. THESIS"} -> "phd"
          [] k = "HABILITATION" -> "habilitation"]

_get_degree_type_nocase(value) ==
    LET b_value == force_single_element(Get(value, "b", Str("")))
    IN  IF Truthy(b_value)
        THEN Str(Get(DEGREE_TYPES_MAP, b_value.v, "other"))
        ELSE None

_get_degree_type(value) ==
    LET b_value == force_single_element(Get(value, "b", Str("")))
    IN  IF Truthy(b_value)
        THEN Str(Get(DEGREE_TYPES_MAP, upper(b_value.v), "other"))
        ELSE None

Min(a, b) == IF a < b THEN a ELSE b

_get_institutions_zip(value) ==
    LET c_values == force_list(Get(value, "c", None))
        z_values == force_list(Get(value, "z", None))
    IN  [i \in 1..Min(Len(c_values), Len(z_values)) |->
            [curated_relation |-> TRUE,
             name |-> c_values[i],
             record |-> get_record_ref(z_values[i], "institutions")]]

_get_institutions(value) ==
    LET c_values == force_list(Get(value, "c", None))
        z_values == force_list(Get(value, "z", None))
    IN  IF Len(c_values) # Len(z_values)
        THEN [i \in 1..Len(c_values) |-> [name |-> c_values[i]]]
        ELSE [i \in 1..Len(c_values) |->
                 [curated_relation |-> TRUE,
                  name |-> c_values[i],
                  record |-> get_record_ref(z_values[i], "institutions")]]

thesis_info(self, value) ==
    IF value.t # "dict"
    THEN Raised(self, "AttributeError")
    ELSE LET t0 == Get(self, "thesis_info", EmptyDict)
             t1 == SetItem(t0, "date", force_single_element(Get(value.v, "d", None)))
             t2 == SetItem(t1, "degree_type", _get_degree_type(value.v))
             t3 == SetItem(t2, "institutions", _get_institutions(value.v))
             \* the object of an existing key is written in place
             self1 == IF HasKey(self, "thesis_info")
                      THEN SetItem(self, "thesis_info", t3)
                      ELSE self
         IN  Returned(self1, t3)

-----------------------------------------------------------------------------
(* The dispatcher: one rule invocation, its result stored under the key    *)
(* the rule is registered for; an exception ends the conversion.           *)

Call(rule, value, pre, post, r) ==
    [rule |-> rule, value |-> value, pre |-> pre, post |-> post,
     ret |-> r.ret, exc |-> r.exc]

Forward(rule, name, value, r) ==
    LET post == IF r.exc = "none" THEN SetItem(r.self, name, r.ret) ELSE r.self
    IN  /\ rec' = post
        /\ raised' = (r.exc # "none")
        /\ hist' = Append(hist, Call(rule, value, rec, post, r))
        /\ UNCHANGED marc

Backward(rule, name, value, r) ==
    LET post == IF r.exc = "none" THEN SetItem(r.self, name, r.ret) ELSE r.self
    IN  /\ marc' = post
        /\ raised' = (r.exc # "none")
        /\ hist' = Append(hist, Call(rule, value, marc, post, r))
        /\ UNCHANGED rec

ForwardRules == {"public_notes", "thesis_info", "funding_info", "license", "copyright",
                 "_private_notes", "_private_notes_hal"}

\* the forward invocations made so far
NForward == Cardinality({i \in 1..Len(hist) : hist[i].rule \in ForwardRules})

\* no backward rule has run yet: the forward conversion is still going on
InForward == \A i \in 1..Len(hist) : hist[i].rule \in ForwardRules

-----------------------------------------------------------------------------
(* The inputs of the 500/502 conversion.                                   *)

\* a sub-field that the occurrence does not carry
Absent == [t |-> "absent"]

Field(code, x) == IF x = Absent THEN EmptyDict ELSE (code :> x)

T_1999_05 == "Presented on 1999-05"
T_2001 == "PRESENTED ON 2001"
T_1987 == "presented on 1987-06-15, CERN"
N_pages == "12 pages"
N_short == "Presented on 99"

Sources500 == {Absent, Str("arXiv"), Tup(<<Str("CDS"), Str("arXiv")>>)}

Texts500 == {Absent, Str(T_1999_05), Str(N_pages),
             Tup(<<Str(N_pages), Str(T_2001), Str(N_short)>>),
             Tup(<<Str(T_1987), Str(T_1999_05)>>)}

Occs500 == {Field("9", s) @@ Field("a", a) : s \in Sources500, a \in Texts500}

\* occurrences that come several to a tag, with different sources
OccsMulti500 == {("9" :> Str("arXiv")) @@ ("a" :> Str(N_pages)),
                 ("9" :> Str("CDS")) @@ ("a" :> Tup(<<Str(T_1999_05), Str(N_short)>>))}

RECURSIVE SeqsOf(_, _)
SeqsOf(S, n) ==
    IF n = 0 THEN {<<>>}
    ELSE {Append(s, x) : s \in SeqsOf(S, n - 1), x \in S}

\* the value of a tag: one occurrence, or a tuple of 2..MaxOccs occurrences
Values500 ==
    {Dict(o) : o \in Occs500}
    \cup {Tup([i \in 1..Len(s) |-> Dict(s[i])]) :
              s \in UNION {SeqsOf(OccsMulti500, n) : n \in 2..MaxOccs}}

Degrees502 == {Absent, Str(""), Str("Ph.D. Thesis"), Str("ph.d. thesis"),
               Str("PH.D. THESIS"), Str("Rapport de Stage"), Str("Master"),
               Str("Doctorat"), Tup(<<Str("PhD"), Str("Master")>>)}

Dates502 == {Absent, Str("2005")}

Institutions502 ==
    {<<Absent, Absent>>,
     <<Str("CERN"), Str("902725")>>,
     <<Str("CERN"), Absent>>,
     <<Absent, Str("902725")>>,
     <<Tup(<<Str("CERN"), Str("DESY")>>), Str("902725")>>,
     <<Tup(<<Str("CERN"), Str("DESY")>>), Tup(<<Str("902725"), Str("902770")>>)>>}

Occ502(b, d, cz) == Field("b", b) @@ Field("d", d) @@ Field("c", cz[1]) @@ Field("z", cz[2])

Values502 ==
    {Dict(Occ502(b, d, <<Str("CERN"), Str("902725")>>)) : b \in Degrees502, d \in Dates502}
    \cup {Dict(Occ502(Str("PhD"), d, cz)) : d \in Dates502, cz \in Institutions502}

-----------------------------------------------------------------------------
(* The conversion of the 500 and 502 tags.                                 *)

Init ==
    /\ rec = EmptyDict
    /\ marc = EmptyDict
    /\ hist = <<>>
    /\ raised = FALSE

Do_public_notes ==
    /\ ~raised
    /\ Len(hist) < MaxCalls
    /\ \E value \in Values500 :
          Forward("public_notes", "public_notes", value, public_notes(rec, value))

Do_thesis_info ==
    /\ ~raised
    /\ Len(hist) < MaxCalls
    /\ \E value \in Values502 :
          Forward("thesis_info", "thesis_info", value, thesis_info(rec, value))

Next == Do_public_notes \/ Do_thesis_info

Spec == Init /\ [][Next]_vars

-----------------------------------------------------------------------------
(* What the claims about the 500 and 502 rules speak of.                   *)

\* the invocations of a rule in the history
CallsOf(rule) == {i \in 1..Len(hist) : hist[i].rule = rule}

\* the occurrences a value holds, in order
OccurrencesOf(value) ==
    IF value.t = "dict" THEN <<value.v>> ELSE [i \in 1..Len(value.v) |-> value.v[i].v]

\* the 'a' texts of an occurrence, in order
TextsOf(occ) == force_list(Get(occ, "a", None))

\* the defense date each text of the inputs states, for the texts that state one
DefenseDateOf ==
    (T_1999_05 :> "1999-05") @@ (T_2001 :> "2001") @@ (T_1987 :> "1987-06-15")

StatesDefenseDate(text) == text.v \in DOMAIN DefenseDateOf

RECURSIVE Flatten(_)
Flatten(ss) == IF ss = <<>> THEN <<>> ELSE Head(ss) \o Flatten(Tail(ss))

\* all texts of a value, occurrence after occurrence
AllTexts(value) ==
    LET occs == OccurrencesOf(value)
    IN  Flatten([i \in 1..Len(occs) |-> TextsOf(occs[i])])

\* the notes a value should add: one per text that states no defense date,
\* each with the source of its own occurrence
OwnSource(occ) == force_single_element(Get(occ, "9", Str("")))

NotesOfOccurrence(occ) ==
    LET plain == SelectSeq(TextsOf(occ), LAMBDA x : ~StatesDefenseDate(x))
    IN  [j \in 1..Len(plain) |-> [source |-> OwnSource(occ), value |-> plain[j]]]

ExpectedNotes(value) ==
    LET occs == OccurrencesOf(value)
    IN  Flatten([i \in 1..Len(occs) |-> NotesOfOccurrence(occs[i])])

\* the defense date a value should leave: that of its last text stating one
ExpectedThesisAfter500(before, value) ==
    LET dated == SelectSeq(AllTexts(value), StatesDefenseDate)
    IN  IF dated = <<>> THEN before
        ELSE SetItem(before, "defense_date", Str(DefenseDateOf[dated[Len(dated)].v]))

ValuesOnly(notes) == [j \in 1..Len(notes) |-> notes[j].value]

NotesIn(r) == Get(r, "public_notes", <<>>)
ThesisIn(r) == Get(r, "thesis_info", EmptyDict)

\* C9: In the forward 500 rule, every text that matches the defense-date
\* pattern adds no note and sets thesis_info.defense_date to the captured
\* date; every other text is appended as one note, in input order, after the
\* notes already in the in-progress record.
C9_DefenseDateExtraction ==
    \A i \in CallsOf("public_notes") :
        LET c == hist[i]
        IN  /\ HasKey(c.post, "public_notes")
            /\ ValuesOnly(NotesIn(c.post))
                 = ValuesOnly(NotesIn(c.pre)) \o ValuesOnly(ExpectedNotes(c.value))
            /\ HasKey(c.post, "thesis_info")
            /\ ThesisIn(c.post) = ExpectedThesisAfter500(ThesisIn(c.pre), c.value)

\* C2: When the 500 rule receives several occurrences with different '9'
\* sub-fields, every note it appends has the source of the occurrence its
\* text came from.
C2_OwnSourcePerOccurrence ==
    \A i \in CallsOf("public_notes") :
        LET c == hist[i]
        IN  Len(OccurrencesOf(c.value)) > 1
            => NotesIn(c.post) = NotesIn(c.pre) \o ExpectedNotes(c.value)

\* the thesis_info the 502 part should hold
ExpectedThesisAfter502(before, occ) ==
    SetItem(SetItem(SetItem(before,
        "date", force_single_element(Get(occ, "d", None))),
        "degree_type", _get_degree_type(occ)),
        "institutions", _get_institutions(occ))

\* C1: Running the 500 rule and the 502 rule in either order on any
\* in-progress record yields the same thesis_info: the defense_date of the
\* 500 notes together with the date, degree_type and institutions of the 502
\* field, neither rule touching what the other wrote; likewise when only one
\* of the two rules runs.
C1_OrderIndependentThesisInfo ==
    /\ \A i \in CallsOf("public_notes") :
           /\ HasKey(hist[i].post, "thesis_info")
           /\ ThesisIn(hist[i].post)
                = ExpectedThesisAfter500(ThesisIn(hist[i].pre), hist[i].value)
    /\ \A i \in CallsOf("thesis_info") :
           ThesisIn(hist[i].post)
             = ExpectedThesisAfter502(ThesisIn(hist[i].pre), hist[i].value.v)
    /\ \A i \in 1..(Len(hist) - 1) :
           LET a == hist[i]
               b == hist[i + 1]
               before == ThesisIn(a.pre)
           IN  /\ (a.rule = "public_notes" /\ b.rule = "thesis_info")
                    => ThesisIn(b.post)
                         = ExpectedThesisAfter502(
                               ExpectedThesisAfter500(before, a.value), b.value.v)
               /\ (a.rule = "thesis_info" /\ b.rule = "public_notes")
                    => ThesisIn(b.post)
                         = ExpectedThesisAfter502(
                               ExpectedThesisAfter500(before, b.value), a.value.v)

\* the 'b' sub-field as the 502 rule reads it
DegreeText(occ) == force_single_element(Get(occ, "b", Str("")))

DegreeCases(c) ==
    LET b == DegreeText(c.value.v)
        t == ThesisIn(c.post)
    IN  /\ b.v \in {"Ph.D. Thesis", "ph.d. thesis", "PH.D. THESIS"}
             => Get(t, "degree_type", None) = Str("phd")
        /\ b.v = "Rapport de Stage" => Get(t, "degree_type", None) = Str("other")
        /\ (b.v # "" /\ upper(b.v) \notin DOMAIN DEGREE_TYPES_MAP)
             => Get(t, "degree_type", None) = Str("other")

\* C3 (as stated): the degree type is normalized case-insensitively, and an
\* empty or missing 'b' yields a thesis_info with no degree_type key at all.
C3_EmptyDegreeTypeAbsent ==
    \A i \in CallsOf("thesis_info") :
        /\ DegreeCases(hist[i])
        /\ DegreeText(hist[i].value.v).v = ""
             => ~HasKey(ThesisIn(hist[i].post), "degree_type")

\* C3 (amended): the degree type is normalized case-insensitively
\* ('Ph.D. Thesis' in any case -> phd, 'Rapport de Stage' -> other, non-empty
\* text outside the table -> other), and an empty or missing 'b' yields a
\* thesis_info whose degree_type key is present and holds None.
C3_EmptyDegreeTypeNone ==
    \A i \in CallsOf("thesis_info") :
        /\ DegreeCases(hist[i])
        /\ DegreeText(hist[i].value.v).v = ""
             => /\ HasKey(ThesisIn(hist[i].post), "degree_type")
                /\ ThesisIn(hist[i].post)["degree_type"] = None

\* a 502 field without 'b', and one with a lower-case 'ph.d. thesis', went
\* through the rule
C3_Witness ==
    /\ Len(hist) = 2
    /\ hist[1].rule = "thesis_info" /\ ~HasKey(hist[1].value.v, "b")
    /\ hist[1].post["thesis_info"]["degree_type"] = None
    /\ hist[2].rule = "thesis_info"
    /\ Get(hist[2].value.v, "b", None) = Str("ph.d. thesis")
    /\ rec["thesis_info"]["degree_type"] = Str("phd")

\* C5: Institution entries carry a record reference only when 'c' and 'z'
\* have equal length, the i-th name then paired with the reference of the
\* i-th key; otherwise there is one name-only entry per name, in order.
C5_InstitutionPairing ==
    \A i \in CallsOf("thesis_info") :
        LET names == force_list(Get(hist[i].value.v, "c", None))
            keys == force_list(Get(hist[i].value.v, "z", None))
            inst == ThesisIn(hist[i].post)["institutions"]
        IN  /\ Len(inst) = Len(names)
            /\ \A j \in 1..Len(inst) :
                  /\ inst[j].name = names[j]
                  /\ HasKey(inst[j], "record") <=> (Len(names) = Len(keys))
                  /\ Len(names) = Len(keys)
                       => inst[j].record = get_record_ref(keys[j], "institutions")
                  /\ Len(names) # Len(keys) => DOMAIN inst[j] = {"name"}

\* two names with one key went through the rule, and two names with two keys
C5_Witness ==
    /\ Len(hist) = 2
    /\ hist[1].rule = "thesis_info"
    /\ Len(force_list(Get(hist[1].value.v, "c", None))) = 2
    /\ Len(force_list(Get(hist[1].value.v, "z", None))) = 1
    /\ Len(hist[1].post["thesis_info"]["institutions"]) = 2
    /\ hist[2].rule = "thesis_info"
    /\ Len(force_list(Get(hist[2].value.v, "z", None))) = 2
    /\ HasKey(rec["thesis_info"]["institutions"][2], "record")

-----------------------------------------------------------------------------
(* 536 funding_info, 540 license, 542 copyright and their backward rules.  *)

\* the rule bodies, for one occurrence (the decorator maps them over the value)
funding_info_each(value) ==
    [agency |-> Get(value, "a", None),
     grant_number |-> Get(value, "c", None),
     project_number |-> Get(value, "f", None)]

funding_info(self, values) ==
    LET vs == for_each_value(values)
    IN  Returned(self, [i \in 1..Len(vs) |-> funding_info_each(vs[i].v)])

funding_info2marc_each(value) ==
    [a |-> Get(value, "agency", None),
     c |-> Get(value, "grant_number", None),
     f |-> Get(value, "project_number", None)]

funding_info2marc_swapped(self, values) ==
    LET vs == for_each_value(values)
    IN  Returned(self, [i \in 1..Len(vs) |->
            [funding_info2marc_each(vs[i]) EXCEPT
                !.c = Get(vs[i], "project_number", None),
                !.f = Get(vs[i], "grant_number", None)]])

funding_info2marc(self, values) ==
    LET vs == for_each_value(values)
    IN  Returned(self, [i \in 1..Len(vs) |-> funding_info2marc_each(vs[i])])

license_each(value) ==
    LET license_value1 == force_list(Get(value, "a", None))
        \* the test compares the whole list with the string, for every val
        license_value2 == SelectSeq(license_value1,
                              LAMBDA val : PyList(license_value1) # Str("Open Access"))
        license_value3 == force_single_element(PyList(license_value2))
    IN  [license |-> license_value3,
         imposing |-> Get(value, "b", None),
         url |-> Get(value, "u", None),
         material |-> Get(value, "3", None)]

license(self, values) ==
    LET vs == for_each_value(values)
    IN  Returned(self, [i \in 1..Len(vs) |-> license_each(vs[i].v)])

license2marc_each(value) ==
    ("a" :> Get(value, "license", None))
    @@ ("b" :> Get(value, "imposing", None))
    @@ ("u" :> Get(value, "url", None))
    @@ ("3" :> Get(value, "material", None))

license2marc(self, values) ==
    LET vs == for_each_value(values)
    IN  Returned(self, [i \in 1..Len(vs) |-> license2marc_each(vs[i])])

MATERIAL_MAP ==
    ("Article" :> "publication") @@ ("Published thesis as a book" :> "publication")

E_MAP == ("publication" :> "Article")

\* M.get(key) for a map of strings
MapGet(M, key) ==
    IF key.t = "str" /\ key.v \in DOMAIN M THEN Str(M[key.v]) ELSE None

\* x or y
Or(x, y) == IF Truthy(x) THEN x ELSE y

copyright_each(value) ==
    LET material == Or(Get(value, "e", None), Get(value, "3", None))
    IN  [holder |-> Get(value, "d", None),
         material |-> MapGet(MATERIAL_MAP, material),
         statement |-> Get(value, "f", None),
         url |-> Get(value, "u", None),
         year |-> maybe_int(Get(value, "g", None))]

copyright_prefers_3(self, values) ==
    LET vs == for_each_value(values)
    IN  Returned(self, [i \in 1..Len(vs) |->
            [copyright_each(vs[i].v) EXCEPT
                !.material = MapGet(MATERIAL_MAP,
                                 Or(Get(vs[i].v, "3", None), Get(vs[i].v, "e", None)))]])

copyright(self, values) ==
    LET vs == for_each_value(values)
    IN  Returned(self, [i \in 1..Len(vs) |-> copyright_each(vs[i].v)])

copyright2marc_each(value) ==
    LET e_value == Get(value, "material", None)
    IN  [d |-> Get(value, "holder", None),
         e |-> MapGet(E_MAP, e_value),
         f |-> Get(value, "statement", None),
         g |-> Get(value, "year", None),
         u |-> Get(value, "url", None)]

copyright2marc(self, values) ==
    LET vs == for_each_value(values)
    IN  Returned(self, [i \in 1..Len(vs) |-> copyright2marc_each(vs[i])])

-----------------------------------------------------------------------------
(* The inputs of the 536/540/542 conversion.                               *)

Occs536 ==
    {Field("a", a) @@ Field("c", c) @@ Field("f", f) :
        a \in {Absent, Str("CERN"), Tup(<<Str("CERN"), Str("DOE")>>)},
        c \in {Absent, Str("G-42")},
        f \in {Absent, Str("P-7")}}

OccsMulti536 == {("a" :> Str("CERN")) @@ ("c" :> Str("G-42")), ("f" :> Str("P-7"))}

Values536 ==
    {Dict(o) : o \in Occs536}
    \cup {Tup([i \in 1..Len(s) |-> Dict(s[i])]) :
              s \in UNION {SeqsOf(OccsMulti536, n) : n \in 2..MaxOccs}}

Occs540 ==
    {Field("a", a) @@ Field("b", b) @@ Field("u", um[1]) @@ Field("3", um[2]) :
        a \in {Absent, Str("CC-BY-4.0"), Str("Open Access"),
               Tup(<<Str("Open Access"), Str("CC-BY-4.0")>>),
               Tup(<<Str("CC-BY-4.0"), Str("Elsevier")>>)},
        b \in {Absent, Str("Elsevier")},
        um \in {<<Absent, Absent>>, <<Str("http://cc.org/by/4.0"), Str("Article")>>}}

Values540 == {Dict(o) : o \in Occs540}

Occs542 ==
    {Field("e", e) @@ Field("3", m) @@ Field("g", g)
       @@ Field("d", dfu[1]) @@ Field("f", dfu[2]) @@ Field("u", dfu[3]) :
        e \in {Absent, Str(""), Str("Article"), Str("Published thesis as a book"),
               Str("Preprint")},
        m \in {Absent, Str("Article"), Str("Erratum")},
        g \in {Absent, Str("2017"), Str("n.d.")},
        dfu \in {<<Absent, Absent, Absent>>,
                 <<Str("CERN"), Str("CC-BY"), Str("http://cern.ch")>>}}

Values542 == {Dict(o) : o \in Occs542}

-----------------------------------------------------------------------------
(* The conversion of the 536/540/542 tags, there and back.                 *)

CanForward(max) == ~raised /\ InForward /\ NForward < max

\* a backward rule runs once, on a key the semantic record holds
CanBackward(rule, key) == ~raised /\ HasKey(rec, key) /\ CallsOf(rule) = {}

Do_funding_info ==
    /\ CanForward(MaxFields)
    /\ \E value \in Values536 :
          Forward("funding_info", "funding_info", value, funding_info(rec, value))

Do_license ==
    /\ CanForward(MaxFields)
    /\ \E value \in Values540 :
          Forward("license", "license", value, license(rec, value))

Do_copyright ==
    /\ CanForward(MaxFields)
    /\ \E value \in Values542 :
          Forward("copyright", "copyright", value, copyright(rec, value))

Do_funding_info2marc ==
    /\ CanBackward("funding_info2marc", "funding_info")
    /\ LET value == PyList(rec["funding_info"])
       IN  Backward("funding_info2marc", "536", value, funding_info2marc(marc, value))

Do_license2marc ==
    /\ CanBackward("license2marc", "license")
    /\ LET value == PyList(rec["license"])
       IN  Backward("license2marc", "540", value, license2marc(marc, value))

Do_copyright2marc ==
    /\ CanBackward("copyright2marc", "copyright")
    /\ LET value == PyList(rec["copyright"])
       IN  Backward("copyright2marc", "542", value, copyright2marc(marc, value))

NextLists ==
    \/ Do_funding_info
    \/ Do_license
    \/ Do_copyright
    \/ Do_funding_info2marc
    \/ Do_license2marc
    \/ Do_copyright2marc

SpecLists == Init /\ [][NextLists]_vars

-----------------------------------------------------------------------------
(* What the claims about the 536/540/542 rules speak of.                   *)

\* the raw occurrences a backward invocation gives back: those of the last
\* forward invocation of the rule that wrote the semantic key
RawOf(i, forwardRule) ==
    LET j == CHOOSE k \in CallsOf(forwardRule) :
                 /\ k < i
                 /\ \A l \in CallsOf(forwardRule) : l < i => l <= k
    IN  OccurrencesOf(hist[j].value)

\* back(forth(raw)) = raw, for a tag with a single occurrence
RoundTrips(backwardRule, forwardRule) ==
    \A i \in CallsOf(backwardRule) :
        Len(RawOf(i, forwardRule)) = 1 => hist[i].ret = RawOf(i, forwardRule)

Completed(raw, codes) == [code \in codes |-> Get(raw, code, None)]

\* the first value of a sub-field
FirstOf(raw, code) ==
    LET x == Get(raw, code, None)
    IN  IF x.t = "tuple" THEN x.v[1] ELSE x

BothMaterials(raw) == HasKey(raw, "e") /\ HasKey(raw, "3")

\* C8 (as stated): with both 'e' and '3' present, copyright2marc(copyright(raw))
\* gives 'e' back with the value raw had, never '3', and carries d, f, g, u
\* through.
C8_PreferredMaterialKept ==
    \A i \in CallsOf("copyright2marc") :
        LET raw == RawOf(i, "copyright")
        IN  \A k \in 1..Len(raw) :
                BothMaterials(raw[k])
                => /\ ~HasKey(hist[i].ret[k], "3")
                   /\ hist[i].ret[k]["e"] = raw[k]["e"]
                   /\ \A code \in {"d", "f", "g", "u"} :
                         hist[i].ret[k][code] = Get(raw[k], code, None)

\* the 'e' that comes back: 'Article' when the material read forward ('e',
\* or '3' when 'e' is empty) is a material of the table, None otherwise
MaterialBack(raw) ==
    LET read == IF raw["e"] = Str("") THEN raw["3"] ELSE raw["e"]
    IN  IF read \in {Str("Article"), Str("Published thesis as a book")}
        THEN Str("Article")
        ELSE None

\* the 'g' that comes back: the year as an integer, None when not a number
YearBack(raw) ==
    CASE ~HasKey(raw, "g") -> None
      [] raw["g"] = Str("2017") -> PyInt(2017)
      [] raw["g"] = Str("n.d.") -> None

\* C8 (amended): with both 'e' and '3' present, copyright2marc(copyright(raw))
\* never gives '3' back; 'e' comes back as 'Article' when the material read
\* forward is 'Article' or 'Published thesis as a book', and as None
\* otherwise; d, f, u are carried through (None when missing) and g comes
\* back as the integer it denotes, None when it denotes none.
C8_PreferredMaterialNormalized ==
    \A i \in CallsOf("copyright2marc") :
        LET raw == RawOf(i, "copyright")
        IN  \A k \in 1..Len(raw) :
                BothMaterials(raw[k])
                => /\ ~HasKey(hist[i].ret[k], "3")
                   /\ hist[i].ret[k]["e"] = MaterialBack(raw[k])
                   /\ hist[i].ret[k]["g"] = YearBack(raw[k])
                   /\ \A code \in {"d", "f", "u"} :
                         hist[i].ret[k][code] = Get(raw[k], code, None)

\* a copyright with e = 'Preprint', 3 = 'Article' and g = '2017' went there
\* and back
C8_Witness ==
    /\ Len(hist) = 2
    /\ hist[1].rule = "copyright"
    /\ Get(hist[1].value.v, "e", None) = Str("Preprint")
    /\ Get(hist[1].value.v, "3", None) = Str("Article")
    /\ Get(hist[1].value.v, "g", None) = Str("2017")
    /\ hist[2].rule = "copyright2marc"
    /\ marc["542"][1]["e"] = None
    /\ marc["542"][1]["g"] = PyInt(2017)

-----------------------------------------------------------------------------
(* 595: _private_notes, _private_notes_hal, _private_notes2marc and        *)
(* _export_to2marc.                                                        *)

\* value.get('c', '').upper() == marker; upper() exists on a string only
ClassificationIs(value, marker) == upper(Get(value, "c", Str("")).v) = marker

\* the inner loop: one private note per 'a' value of the occurrence
OccurrenceNotes(value, source) ==
    LET texts == force_list(Get(value, "a", None))
    IN  [j \in 1..Len(texts) |-> [source |-> source, value |-> texts[j]]]

\* the loop of _private_notes over the occurrences
RECURSIVE _private_notes_loop(_, _)
_private_notes_loop(values, acc) ==
    IF values = <<>> \/ acc.exc # "none" THEN acc
    ELSE LET value == Head(values).v
         IN  IF Get(value, "c", Str("")).t # "str"
             THEN [acc EXCEPT !.exc = "AttributeError"]
             ELSE LET _export_to ==
                          IF ClassificationIs(value, "CDS")
                          THEN SetItem(acc._export_to, "CDS", TRUE)
                          ELSE IF ClassificationIs(value, "HAL")
                          THEN SetItem(acc._export_to, "HAL", TRUE)
                          ELSE IF ClassificationIs(value, "NOT HAL")
                          THEN SetItem(acc._export_to, "HAL", FALSE)
                          ELSE acc._export_to
                      source == force_single_element(Get(value, "9", None))
                      notes == OccurrenceNotes(value, source)
                  IN  _private_notes_loop(
                          Tail(values),
                          [acc EXCEPT !._export_to = _export_to,
                                      !._private_notes = @ \o notes])

\* what the rule wrote in place, into the objects `self` already held
InPlace(self, acc) ==
    [k \in DOMAIN self |->
        IF k \in {"_private_notes", "_export_to"} THEN acc[k] ELSE self[k]]

_private_notes(self, value) ==
    LET acc == _private_notes_loop(
                   force_list(value),
                   [_private_notes |-> Get(self, "_private_notes", <<>>),
                    _export_to |-> Get(self, "_export_to", EmptyDict),
                    exc |-> "none"])
    IN  IF acc.exc # "none"
        THEN Raised(InPlace(self, acc), acc.exc)
        ELSE Returned(SetItem(InPlace(self, acc), "_export_to", acc._export_to),
                      acc._private_notes)

\* the loop of _private_notes_hal over the occurrences
RECURSIVE _private_notes_hal_loop(_, _)
_private_notes_hal_loop(values, notes) ==
    IF values = <<>> THEN notes
    ELSE _private_notes_hal_loop(
             Tail(values),
             notes \o OccurrenceNotes(Head(values).v, Str("HAL")))

RECURSIVE _private_notes_hal_loop_own_source(_, _)
_private_notes_hal_loop_own_source(values, notes) ==
    IF values = <<>> THEN notes
    ELSE _private_notes_hal_loop_own_source(
             Tail(values),
             notes \o OccurrenceNotes(Head(values).v,
                                      force_single_element(Get(Head(values).v, "9", None))))

_private_notes_hal_own_source(self, value) ==
    LET notes == _private_notes_hal_loop_own_source(
                     force_list(value), Get(self, "_private_notes", <<>>))
    IN  Returned(IF HasKey(self, "_private_notes")
                 THEN SetItem(self, "_private_notes", notes) ELSE self,
                 notes)

_private_notes_hal(self, value) ==
    LET notes == _private_notes_hal_loop(
                     force_list(value), Get(self, "_private_notes", <<>>))
    IN  Returned(IF HasKey(self, "_private_notes")
                 THEN SetItem(self, "_private_notes", notes) ELSE self,
                 notes)

_is_from_hal(value) == Get(value, "source", None) = Str("HAL")

\* the loop of _private_notes2marc over the notes
RECURSIVE _private_notes2marc_loop(_, _)
_private_notes2marc_loop(values, acc) ==
    IF values = <<>> THEN acc
    ELSE LET value == Head(values)
         IN  _private_notes2marc_loop(
                 Tail(values),
                 IF _is_from_hal(value)
                 THEN [acc EXCEPT !.result_595_H =
                          Append(@, "a" :> Get(value, "value", None))]
                 ELSE [acc EXCEPT !.result_595 =
                          Append(@, ("9" :> Get(value, "source", None))
                                    @@ ("a" :> Get(value, "value", None)))])

_private_notes2marc(self, value) ==
    LET acc == _private_notes2marc_loop(
                   force_list(value),
                   [result_595 |-> Get(self, "595", <<>>),
                    result_595_H |-> Get(self, "595_H", <<>>)])
        \* the list of an existing key is appended to in place
        self1 == IF HasKey(self, "595")
                 THEN SetItem(self, "595", acc.result_595)
                 ELSE self
    IN  Returned(SetItem(self1, "595_H", acc.result_595_H), acc.result_595)

_export_to2marc_hal_first(self, value) ==
    Returned(self,
        IF HasKey(value, "HAL") /\ value["HAL"] THEN <<[c |-> Str("HAL")]>>
        ELSE IF HasKey(value, "CDS") THEN <<[c |-> Str("CDS")]>>
        ELSE IF HasKey(value, "HAL") /\ ~value["HAL"] THEN <<[c |-> Str("not HAL")]>>
        ELSE <<>>)

_export_to2marc(self, value) ==
    Returned(self,
        IF HasKey(value, "CDS") THEN <<[c |-> Str("CDS")]>>
        ELSE IF HasKey(value, "HAL") /\ value["HAL"] THEN <<[c |-> Str("HAL")]>>
        ELSE IF HasKey(value, "HAL") /\ ~value["HAL"] THEN <<[c |-> Str("not HAL")]>>
        ELSE <<>>)

-----------------------------------------------------------------------------
(* The inputs of the 595 conversion.                                       *)

Occs595 ==
    {Field("c", c) @@ ("9" :> Str("SPIRES-HIDDEN")) @@ ("a" :> Str("note 1")) :
        c \in {Absent, Str("CDS"), Str("hal"), Str("Not HAL"), Str("TeXed"),
               Tup(<<Str("CDS"), Str("HAL")>>)}}
    \cup {Field("9", s) @@ Field("a", a) :
            s \in {Absent, Str("SPIRES-HIDDEN"), Str("HAL")},
            a \in {Absent, Str("note 1"), Tup(<<Str("note 1"), Str("note 2")>>)}}

OccsMulti595 == {("c" :> Str("CDS")) @@ ("a" :> Str("note 1")),
                 ("c" :> Str("HAL")) @@ ("9" :> Str("SPIRES-HIDDEN")),
                 ("c" :> Str("NOT HAL")) @@ ("a" :> Str("note 2"))}

Values595 ==
    {Dict(o) : o \in Occs595}
    \cup {Tup([i \in 1..Len(s) |-> Dict(s[i])]) :
              s \in UNION {SeqsOf(OccsMulti595, n) : n \in 2..MaxOccs}}

Occs595H ==
    {Field("9", s) @@ ("a" :> a) :
        s \in {Absent, Str("SPIRES-HIDDEN")},
        a \in {Str("hal note 1"), Tup(<<Str("hal note 1"), Str("note 1")>>)}}

OccsMulti595H == {("9" :> Str("SPIRES-HIDDEN")) @@ ("a" :> Str("hal note 1")),
                  ("a" :> Str("hal note 2"))}

Values595H ==
    {Dict(o) : o \in Occs595H}
    \cup {Tup([i \in 1..Len(s) |-> Dict(s[i])]) :
              s \in UNION {SeqsOf(OccsMulti595H, n) : n \in 2..MaxOccs}}

-----------------------------------------------------------------------------
(* The conversion of the 595 tags, there and back.                         *)

Do__private_notes ==
    /\ CanForward(MaxCalls595)
    /\ \E value \in Values595 :
          Forward("_private_notes", "_private_notes", value, _private_notes(rec, value))

Do__private_notes_hal ==
    /\ CanForward(MaxCalls595)
    /\ \E value \in Values595H :
          Forward("_private_notes_hal", "_private_notes", value,
                  _private_notes_hal(rec, value))

Do__private_notes2marc ==
    /\ CanBackward("_private_notes2marc", "_private_notes")
    /\ LET value == PyList(rec["_private_notes"])
       IN  Backward("_private_notes2marc", "595", value, _private_notes2marc(marc, value))

Do__export_to2marc ==
    /\ CanBackward("_export_to2marc", "_export_to")
    /\ LET value == rec["_export_to"]
       IN  Backward("_export_to2marc", "595", value, _export_to2marc(marc, value))

Next595 ==
    \/ Do__private_notes
    \/ Do__private_notes_hal
    \/ Do__private_notes2marc
    \/ Do__export_to2marc

Spec595 == Init /\ [][Next595]_vars

-----------------------------------------------------------------------------
(* What the claims about the 595 rules speak of.                           *)

\* C6: _export_to2marc returns at most one occurrence, by fixed precedence:
\* 'CDS' when a CDS flag is present, else 'HAL' when the HAL flag is true,
\* else 'not HAL' when it is false, else nothing.
C6_ExportPrecedence ==
    \A i \in CallsOf("_export_to2marc") :
        LET flags == hist[i].value
            ret == hist[i].ret
        IN  /\ Len(ret) <= 1
            /\ "CDS" \in DOMAIN flags => ret = <<[c |-> Str("CDS")]>>
            /\ ("CDS" \notin DOMAIN flags /\ "HAL" \in DOMAIN flags /\ flags["HAL"])
                 => ret = <<[c |-> Str("HAL")]>>
            /\ ("CDS" \notin DOMAIN flags /\ "HAL" \in DOMAIN flags /\ ~flags["HAL"])
                 => ret = <<[c |-> Str("not HAL")]>>
            /\ DOMAIN flags = {} => ret = <<>>

\* a flag object with both CDS and HAL true went through the rule
C6_Witness ==
    /\ HasKey(rec, "_export_to")
    /\ DOMAIN rec["_export_to"] = {"CDS", "HAL"}
    /\ rec["_export_to"]["HAL"]
    /\ CallsOf("_export_to2marc") # {}
    /\ marc["595"] = <<[c |-> Str("CDS")]>>

\* the texts of a 595_H value, occurrence after occurrence
HalTexts(value) == AllTexts(value)

\* C7: every note the 595_H rule appends has source 'HAL', whatever '9' the
\* occurrence carries, and the backward rule emits every HAL note under
\* 595_H and never under 595.
C7_HalNotes ==
    /\ \A i \in CallsOf("_private_notes_hal") :
           LET before == Get(hist[i].pre, "_private_notes", <<>>)
               after == hist[i].post["_private_notes"]
               texts == HalTexts(hist[i].value)
           IN  /\ Len(after) = Len(before) + Len(texts)
               /\ SubSeq(after, 1, Len(before)) = before
               /\ \A j \in 1..Len(texts) :
                     after[Len(before) + j] = [source |-> Str("HAL"), value |-> texts[j]]
    /\ \A i \in CallsOf("_private_notes2marc") :
           LET notes == hist[i].value.v
               hal == SelectSeq(notes, LAMBDA n : n.source = Str("HAL"))
               other == SelectSeq(notes, LAMBDA n : n.source # Str("HAL"))
               was_595 == Get(hist[i].pre, "595", <<>>)
               was_595_H == Get(hist[i].pre, "595_H", <<>>)
           IN  /\ hist[i].post["595_H"]
                    = was_595_H \o [j \in 1..Len(hal) |-> ("a" :> hal[j].value)]
               /\ hist[i].post["595"]
                    = was_595 \o [j \in 1..Len(other) |->
                                     ("9" :> other[j].source) @@ ("a" :> other[j].value)]

\* a 595_H occurrence carrying its own '9' went through the forward rule,
\* and its notes went back under 595_H
C7_Witness ==
    /\ Len(hist) = 2
    /\ hist[1].rule = "_private_notes_hal"
    /\ hist[1].value.t = "dict"
    /\ Get(hist[1].value.v, "9", None) = Str("SPIRES-HIDDEN")
    /\ hist[2].rule = "_private_notes2marc"
    /\ Len(marc["595_H"]) = 2
    /\ marc["595"] = <<>>

Range(seq) == {seq[j] : j \in 1..Len(seq)}

\* C10: for a semantic record with general private notes and an export-flag
\* object, once _private_notes2marc and _export_to2marc have both run, in
\* either order, tag 595 holds every general private-note occurrence and the
\* export-flag occurrence.
C10_Shared595KeepsBoth ==
    \A i \in CallsOf("_private_notes2marc") :
        \A k \in CallsOf("_export_to2marc") :
            LET notes == hist[i].value.v
                general == {("9" :> n.source) @@ ("a" :> n.value) :
                               n \in {m \in Range(notes) : m.source # Str("HAL")}}
            IN  /\ general \subseteq Range(marc["595"])
                /\ Range(hist[k].ret) \subseteq Range(marc["595"])

=============================================================================
